---- MODULE Spec2Model ----
(***************************************************************************)
(* Dashboard SLS (src/app.py): the load pipeline (load_data) and the       *)
(* Streamlit script that filters, ranks, aggregates and exports the        *)
(* enriched table on every interaction.                                    *)
(*                                                                         *)
(* Strings whose characters the code inspects (headers, id_sls, nama_sls,  *)
(* the search text, text cells) are sequences of one-character strings.    *)
(* NaN is the value pandas stores for a missing entry.                     *)
(***************************************************************************)
EXTENDS Integers, Sequences, FiniteSets, TLC

VARIABLES
    source,            \* the spreadsheet the script reads, or NoSource
    pc,                \* where the last script run ended: "nosource", "failed", "loaded"
    error,             \* the exception load_data raised in the last run, or NoError
    df,                \* the enriched table
    kecamatan_pilihan, \* selectbox value
    kelurahan_pilihan, \* multiselect value (a set)
    q,                 \* text_input value
    kategori_pilihan,  \* multiselect value (a set)
    ascending,         \* sort direction derived from the radio
    view,              \* the script's `view` at the end of the run (detail view)
    kel_summary,       \* the rollup rendered by the run
    view_sorted,       \* the sorted detail view with its ranking column
    xlsx               \* the workbook handed to the Excel download button

vars == <<source, pc, error, df, kecamatan_pilihan, kelurahan_pilihan, q,
          kategori_pilihan, ascending, view, kel_summary, view_sorted, xlsx>>

\* NaN in a column of names, and in a column of character sequences
NaN == "NaN"
NaNText == <<"NaN">>
NoSource == "none"
NoWorkbook == [sheet_name |-> "", header |-> <<>>, body |-> <<>>]
NoError == [kind |-> "none", missing |-> <<>>, required |-> <<>>]

(***************************************************************************)
(* Bounds of the model.                                                    *)
(***************************************************************************)
MaxRows == 3

(***************************************************************************)
(* Generic helpers.                                                        *)
(***************************************************************************)
Range(s) == {s[i] : i \in DOMAIN s}

Take(s, n) == SubSeq(s, 1, IF Len(s) < n THEN Len(s) ELSE n)

Drop(s, n) == SubSeq(s, n + 1, Len(s))

Get(map, key) == IF key \in DOMAIN map THEN map[key] ELSE NaN

RECURSIVE SumOver(_, _)
SumOver(s, col) ==
    IF s = <<>> THEN 0 ELSE s[1][col] + SumOver(Tail(s), col)

(***************************************************************************)
(* str methods used by the script.                                         *)
(***************************************************************************)
Whitespace == {" ", "\t"}

Digits == {"0", "1", "2", "3", "4", "5", "6", "7", "8", "9"}

DigitVal ==
    ("0" :> 0) @@ ("1" :> 1) @@ ("2" :> 2) @@ ("3" :> 3) @@ ("4" :> 4)
    @@ ("5" :> 5) @@ ("6" :> 6) @@ ("7" :> 7) @@ ("8" :> 8) @@ ("9" :> 9)

LowerOf ==
    ("A" :> "a") @@ ("B" :> "b") @@ ("C" :> "c") @@ ("D" :> "d") @@ ("E" :> "e") @@ ("F" :> "f")
    @@ ("G" :> "g") @@ ("H" :> "h") @@ ("I" :> "i") @@ ("J" :> "j") @@ ("K" :> "k") @@ ("L" :> "l")
    @@ ("M" :> "m") @@ ("N" :> "n") @@ ("O" :> "o") @@ ("P" :> "p") @@ ("Q" :> "q") @@ ("R" :> "r")
    @@ ("S" :> "s") @@ ("T" :> "t") @@ ("U" :> "u") @@ ("V" :> "v") @@ ("W" :> "w") @@ ("X" :> "x")
    @@ ("Y" :> "y") @@ ("Z" :> "z")

\* str.lower()
Lower(s) == [i \in DOMAIN s |-> IF s[i] \in DOMAIN LowerOf THEN LowerOf[s[i]] ELSE s[i]]

RECURSIVE LStrip(_)
LStrip(s) ==
    IF s # <<>> /\ s[1] \in Whitespace THEN LStrip(Tail(s)) ELSE s

RECURSIVE RStrip(_)
RStrip(s) ==
    IF s # <<>> /\ s[Len(s)] \in Whitespace THEN RStrip(SubSeq(s, 1, Len(s) - 1)) ELSE s

\* str.strip()
Strip(s) == RStrip(LStrip(s))

\* the longest prefix of s made of decimal digits
RECURSIVE LeadingDigits(_)
LeadingDigits(s) ==
    IF s # <<>> /\ s[1] \in Digits THEN <<s[1]>> \o LeadingDigits(Tail(s)) ELSE <<>>

\* str.contains(pat) for a pattern without regular-expression metacharacters:
\* pat occurs in s as a substring
Contains(s, pat) ==
    \E i \in 1..(Len(s) + 1) :
        /\ i + Len(pat) - 1 <= Len(s)
        /\ SubSeq(s, i, i + Len(pat) - 1) = pat

(***************************************************************************)
(* Mapping tables.                                                         *)
(***************************************************************************)
COLMAP ==
       (<<"i","d"," ","s","l","s">> :> "id_sls")
    @@ (<<"i","d","_","s","l","s">> :> "id_sls")
    @@ (<<"i","d","s","l","s">> :> "id_sls")
    @@ (<<"i","d">> :> "id_sls")
    @@ (<<"n","a","m","a"," ","s","l","s">> :> "nama_sls")
    @@ (<<"n","a","m","a","_","s","l","s">> :> "nama_sls")
    @@ (<<"n","a","m","a">> :> "nama_sls")
    @@ (<<"j","u","m","l","a","h"," ","u","s","a","h","a"," ","p","l","k","u","m","k","m">> :> "plkumkm")
    @@ (<<"p","l","k","u","m","k","m">> :> "plkumkm")
    @@ (<<"j","u","m","l","a","h"," ","p","l","k","u","m","k","m">> :> "plkumkm")
    @@ (<<"j","u","m","l","a","h"," ","u","s","a","h","a"," ","k","d","m">> :> "kdm")
    @@ (<<"k","d","m">> :> "kdm")
    @@ (<<"j","u","m","l","a","h"," ","k","d","m">> :> "kdm")
    @@ (<<"s","e","l","i","s","i","h"," ","j","u","m","l","a","h"," ","u","s","a","h","a">> :> "selisih")
    @@ (<<"s","e","l","i","s","i","h">> :> "selisih")

REQUIRED == <<"id_sls", "nama_sls", "plkumkm", "kdm", "selisih">>

KECAMATAN_MAP ==
       (<<"3","5","7","6","0","1","0">> :> "Prajurit Kulon")
    @@ (<<"3","5","7","6","0","2","0">> :> "Magersari")
    @@ (<<"3","5","7","6","0","2","1">> :> "Kranggan")

KELURAHAN_MAP ==
       (<<"3","5","7","6","0","1","0","0","0","1">> :> "Surodinawan")
    @@ (<<"3","5","7","6","0","1","0","0","0","4">> :> "Prajuritkulon")
    @@ (<<"3","5","7","6","0","1","0","0","0","5">> :> "Blooto")
    @@ (<<"3","5","7","6","0","1","0","0","0","6">> :> "Mentikan")
    @@ (<<"3","5","7","6","0","1","0","0","0","7">> :> "Kauman")
    @@ (<<"3","5","7","6","0","1","0","0","0","8">> :> "Pulorejo")
    @@ (<<"3","5","7","6","0","2","0","0","0","2">> :> "Gunung Gedangan")
    @@ (<<"3","5","7","6","0","2","0","0","0","3">> :> "Kedundung")
    @@ (<<"3","5","7","6","0","2","0","0","0","4">> :> "Balongsari")
    @@ (<<"3","5","7","6","0","2","0","0","0","8">> :> "Gedongan")
    @@ (<<"3","5","7","6","0","2","0","0","0","9">> :> "Magersari")
    @@ (<<"3","5","7","6","0","2","0","0","1","0">> :> "Wates")
    @@ (<<"3","5","7","6","0","2","1","0","0","4">> :> "Miji")
    @@ (<<"3","5","7","6","0","2","1","0","0","1">> :> "Kranggan")
    @@ (<<"3","5","7","6","0","2","1","0","0","6">> :> "Purwotengah")
    @@ (<<"3","5","7","6","0","2","1","0","0","5">> :> "Sentanan")
    @@ (<<"3","5","7","6","0","2","1","0","0","3">> :> "Jagalan")
    @@ (<<"3","5","7","6","0","2","1","0","0","2">> :> "Meri")

Hijau == "Hijau (Over/Bagus)"
Kuning == "Kuning (Match)"
Merah == "Merah (Kurang)"
Semua == "(Semua)"

(***************************************************************************)
(* The spreadsheet.  A source has a header row and data rows.  A cell of   *)
(* a numeric column is a number (kept in tenths, so that 2.5 is 25), a     *)
(* text, or blank.  Every column whose header maps to a canonical field    *)
(* carries that field's cell of the row; columns COLMAP does not know are  *)
(* dropped by line 81 and their cells are not represented.                 *)
(***************************************************************************)
Number(tenths) == [kind |-> "number", tenths |-> tenths, chars |-> <<>>]
Text(chars) == [kind |-> "text", tenths |-> 0, chars |-> chars]
Blank == [kind |-> "blank", tenths |-> 0, chars |-> <<>>]

Finite(tenths) == [kind |-> "finite", tenths |-> tenths]
NotANumber == [kind |-> "nan", tenths |-> 0]
Infinite == [kind |-> "inf", tenths |-> 0]

RECURSIVE DigitsValue(_, _)
DigitsValue(s, acc) ==
    IF s = <<>> THEN acc ELSE DigitsValue(Tail(s), 10 * acc + DigitVal[s[1]])

\* The float pandas parses from a text: an optional sign, digits and an
\* optional fraction (its first digit is kept: the model's texts have at most
\* one), or a spelling of infinity; any other text does not parse.
ParseFloat(chars) ==
    LET signed == chars # <<>> /\ chars[1] \in {"-", "+"}
        neg == chars # <<>> /\ chars[1] = "-"
        body == IF signed THEN Tail(chars) ELSE chars
        whole == LeadingDigits(body)
        rest == Drop(body, Len(whole))
        frac == IF rest # <<>> /\ rest[1] = "." THEN Tail(rest) ELSE <<>>
        wellFormed ==
            /\ whole # <<>>
            /\ \/ rest = <<>>
               \/ rest[1] = "." /\ LeadingDigits(frac) = frac
        magnitude ==
            10 * DigitsValue(whole, 0) + (IF frac = <<>> THEN 0 ELSE DigitVal[frac[1]])
    IN  IF Lower(body) \in {<<"i","n","f">>, <<"i","n","f","i","n","i","t","y">>}
        THEN Infinite
        ELSE IF wellFormed
             THEN Finite(IF neg THEN -magnitude ELSE magnitude)
             ELSE NotANumber

\* pd.to_numeric(..., errors="coerce") on one cell
to_numeric(cell) ==
    CASE cell.kind = "number" -> Finite(cell.tenths)
      [] cell.kind = "text" -> ParseFloat(cell.chars)
      [] OTHER -> NotANumber

\* .fillna(0) on one value
fillna0(x) == IF x.kind = "nan" THEN Finite(0) ELSE x

\* .astype(int) on one finite value: truncation towards zero
astype_int(x) ==
    IF x.tenths < 0 THEN -((-x.tenths) \div 10) ELSE x.tenths \div 10

NumericColumns == <<"plkumkm", "kdm", "selisih">>

(***************************************************************************)
(* load_data (lines 73-103).                                               *)
(***************************************************************************)
\* line 76: the normalised header row
Columns(src) == [i \in DOMAIN src.headers |-> Lower(Strip(src.headers[i]))]

\* lines 77-81: the columns kept, under their canonical names (a canonical
\* name occurs once per header that maps to it)
Renamed(src) ==
    LET kept == SelectSeq(Columns(src), LAMBDA c : c \in DOMAIN COLMAP)
    IN  [i \in DOMAIN kept |-> COLMAP[kept[i]]]

\* line 83
Missing(src) ==
    LET present == Range(Renamed(src))
    IN  SelectSeq(REQUIRED, LAMBDA c : c \notin present)

\* the canonical names that two or more of the kept columns carry: df[c] is
\* then a DataFrame, which to_numeric (line 88) and .str (lines 91, 95) reject
Duplicated(src) ==
    LET renamed == Renamed(src)
    IN  {c \in Range(renamed) :
            \E i, j \in DOMAIN renamed : i # j /\ renamed[i] = c /\ renamed[j] = c}

\* lines 87-89: a non-finite value cannot be cast by astype(int)
NonFinite(src) ==
    \E i \in DOMAIN src.rows : \E c \in Range(NumericColumns) :
        fillna0(to_numeric(src.rows[i][c])).kind = "inf"

Coerce(cell) == astype_int(fillna0(to_numeric(cell)))

\* line 91: the capture group of ^\s*\[?(\d+)\]? , NaN when it does not match
ParsedId(nama) ==
    LET t == LStrip(nama)
        u == IF t # <<>> /\ t[1] = "[" THEN Tail(t) ELSE t
        d == LeadingDigits(u)
    IN  IF d = <<>> THEN NaNText ELSE d

\* faulty variant: the first condition written as le(0)
SelectBranchLe(selisih) ==
    IF selisih <= 0 THEN 1
    ELSE IF selisih = 0 THEN 2
    ELSE IF selisih > 0 THEN 3
    ELSE 0

\* lines 98-99: the first condition of the condlist that holds, 0 when none does
SelectBranch(selisih) ==
    IF selisih < 0 THEN 1
    ELSE IF selisih = 0 THEN 2
    ELSE IF selisih > 0 THEN 3
    ELSE 0

\* lines 98-102: np.select
Kategori(selisih) ==
    LET choicelist == <<Hijau, Kuning, Merah>>
        b == SelectBranch(selisih)
    IN  IF b = 0 THEN Kuning ELSE choicelist[b]

\* faulty variant: the prefix cut one character short
KecamatanOfPrefix6(id_sls) == Get(KECAMATAN_MAP, Take(id_sls, 6))

\* line 95
KecamatanOf(id_sls) == Get(KECAMATAN_MAP, Take(id_sls, 7))

\* line 96
KelurahanOf(id_sls) == Get(KELURAHAN_MAP, Take(id_sls, 10))

\* lines 87-102 on one row
Enrich(raw) ==
    LET selisih == Coerce(raw.selisih)
    IN  [id_sls |-> raw.id_sls,
         nama_sls |-> raw.nama_sls,
         plkumkm |-> Coerce(raw.plkumkm),
         kdm |-> Coerce(raw.kdm),
         selisih |-> selisih,
         parsed_id |-> ParsedId(raw.nama_sls),
         kecamatan |-> KecamatanOf(raw.id_sls),
         kelurahan |-> KelurahanOf(raw.id_sls),
         kategori |-> Kategori(selisih)]

Raise(kind, missing) ==
    [ok |-> FALSE,
     error |-> [kind |-> kind, missing |-> missing,
                required |-> IF missing = <<>> THEN <<>> ELSE REQUIRED],
     df |-> <<>>]

\* the value load_data returns, or the exception it raises
load_data(src) ==
    IF Missing(src) # <<>> THEN Raise("missing columns", Missing(src))
    ELSE IF Duplicated(src) \cap Range(NumericColumns) # {}
         THEN Raise("duplicate column", <<>>)
    ELSE IF NonFinite(src) THEN Raise("non-finite value", <<>>)
    ELSE IF Duplicated(src) # {} THEN Raise("duplicate column", <<>>)
    ELSE [ok |-> TRUE, error |-> NoError,
          df |-> [i \in DOMAIN src.rows |-> Enrich(src.rows[i])]]

(***************************************************************************)
(* The script body after the load (lines 152-465), as functions of the     *)
(* table and of the widget values.                                         *)
(***************************************************************************)
RECURSIVE Unique(_)
\* Series.unique(): the distinct values in order of first appearance
Unique(s) ==
    IF s = <<>> THEN <<>>
    ELSE LET r == Unique(SubSeq(s, 1, Len(s) - 1))
         IN  IF s[Len(s)] \in Range(r) THEN r ELSE Append(r, s[Len(s)])

Column(rows, col) == [i \in DOMAIN rows |-> rows[i][col]]

DropNa(s) == SelectSeq(s, LAMBDA x : x # NaN)

\* line 158: the districts offered besides "(Semua)"
KecamatanOptions(table) == Range(DropNa(Column(table, "kecamatan")))

\* lines 173-181
KelurahanOptions(table, kec) ==
    IF kec = Semua
    THEN Unique(DropNa(Column(table, "kelurahan")))
    ELSE Unique(DropNa(Column(SelectSeq(table, LAMBDA r : r.kecamatan = kec),
                              "kelurahan")))

\* faulty variant: records without district pass the district filter
FilterKecamatanKeepNa(v, kec) ==
    IF kec # Semua
    THEN SelectSeq(v, LAMBDA r : r.kecamatan = kec \/ r.kecamatan = NaN)
    ELSE v

\* lines 187-188 and 383-384
FilterKecamatan(v, kec) ==
    IF kec # Semua THEN SelectSeq(v, LAMBDA r : r.kecamatan = kec) ELSE v

\* lines 189-190 and 385-386
FilterKelurahan(v, kel) ==
    IF kel # {} THEN SelectSeq(v, LAMBDA r : r.kelurahan \in kel) ELSE v

\* lines 374-380
FilterSearch(v, text) ==
    IF text # <<>>
    THEN LET pat == Lower(Strip(text))
         IN  SelectSeq(v, LAMBDA r :
                \/ Contains(Lower(r.nama_sls), pat)
                \/ Contains(r.id_sls, pat)
                \/ Contains(IF r.parsed_id = NaNText THEN <<>> ELSE r.parsed_id, pat))
    ELSE v

\* faulty variant: the membership filter without its guard
FilterKategoriAlways(v, kat) == SelectSeq(v, LAMBDA r : r.kategori \in kat)

\* lines 381-382
FilterKategori(v, kat) ==
    IF kat # {} THEN SelectSeq(v, LAMBDA r : r.kategori \in kat) ELSE v

\* lines 186-190: the first `view`, which the rollup reads
RegionView(table, kec, kel) ==
    FilterKelurahan(FilterKecamatan(table, kec), kel)

\* faulty variant: the subdistrict filter reads the table, not the view
DetailViewFromSource(table, kec, kel, text, kat) ==
    IF kel # {}
    THEN FilterKelurahan(table, kel)
    ELSE FilterKecamatan(FilterKategori(FilterSearch(table, text), kat), kec)

\* lines 373-386: the second `view`
DetailView(table, kec, kel, text, kat) ==
    FilterKelurahan(
        FilterKecamatan(
            FilterKategori(
                FilterSearch(table, text), kat), kec), kel)

\* sort_values("selisih", ascending=asc): sorted on the key; the default sort
\* kind is not stable, so rows with equal keys may come in any order
RECURSIVE SortValues(_, _)
SortValues(rows, asc) ==
    LET First(i) == \A j \in DOMAIN rows :
                        IF asc THEN rows[i].selisih <= rows[j].selisih
                               ELSE rows[i].selisih >= rows[j].selisih
        Without(i) == SubSeq(rows, 1, i - 1) \o SubSeq(rows, i + 1, Len(rows))
    IN  IF rows = <<>> THEN {<<>>}
        ELSE UNION {{<<rows[i]>> \o t : t \in SortValues(Without(i), asc)} :
                        i \in {i \in DOMAIN rows : First(i)}}

\* faulty variant: rank(method="dense")
RankDense(rows, i, asc) ==
    1 + Cardinality({rows[j].selisih : j \in
            {j \in DOMAIN rows :
                IF asc THEN rows[j].selisih < rows[i].selisih
                       ELSE rows[j].selisih > rows[i].selisih}})

\* Series.rank(method="min", ascending=asc).astype(int) at position i
RankMin(rows, i, asc) ==
    1 + Cardinality({j \in DOMAIN rows :
            IF asc THEN rows[j].selisih < rows[i].selisih
                   ELSE rows[j].selisih > rows[i].selisih})

\* lines 315-317 and 390-391: the frame with its ranking_selisih column
WithRanking(rows, asc) ==
    [i \in DOMAIN rows |->
        [ranking_selisih |-> RankMin(rows, i, asc)] @@ rows[i]]

\* faulty variant: groupby(..., dropna=False)
GroupByAll(v) ==
    LET keys == Unique(Column(v, "kelurahan"))
        Group(k) == SelectSeq(v, LAMBDA r : r.kelurahan = k)
    IN  [g \in DOMAIN keys |->
            [kelurahan |-> keys[g],
             plkumkm |-> SumOver(Group(keys[g]), "plkumkm"),
             kdm |-> SumOver(Group(keys[g]), "kdm"),
             selisih |-> SumOver(Group(keys[g]), "selisih"),
             jumlah_sls |-> Len(Group(keys[g]))]]

\* lines 302-310: groupby("kelurahan").agg(...).reset_index(); NaN keys form
\* no group.  The groups are listed here in order of first appearance: the
\* sort that follows fixes the order of the rows.
GroupBy(v) ==
    LET keys == Unique(DropNa(Column(v, "kelurahan")))
        Group(k) == SelectSeq(v, LAMBDA r : r.kelurahan = k)
    IN  [g \in DOMAIN keys |->
            [kelurahan |-> keys[g],
             plkumkm |-> SumOver(Group(keys[g]), "plkumkm"),
             kdm |-> SumOver(Group(keys[g]), "kdm"),
             selisih |-> SumOver(Group(keys[g]), "selisih"),
             jumlah_sls |-> Len(Group(keys[g]))]]

\* lines 300-321 (and 357-358): the rollups the run may render
KelSummaries(region, asc) ==
    IF region # <<>>
    THEN {WithRanking(t, asc) : t \in SortValues(GroupBy(region), asc)}
    ELSE {<<>>}

show_cols ==
    <<"ranking_selisih", "id_sls", "nama_sls", "kecamatan", "kelurahan",
      "plkumkm", "kdm", "selisih", "kategori">>

\* lines 105-109 on view_sorted[show_cols]: one sheet, a header row, the
\* rows' values in column order, no index column
to_excel_bytes(rows) ==
    [sheet_name |-> "SLS",
     header |-> show_cols,
     body |-> [i \in DOMAIN rows |->
                  [c \in DOMAIN show_cols |-> rows[i][show_cols[c]]]]]

\* faulty variant: the ranking column is also written to df
AssignRankingToSource(env, asc) ==
    [env EXCEPT !.view_sorted = WithRanking(@, asc),
                !.df = WithRanking(@, asc)]

\* lines 390-391: view_sorted["ranking_selisih"] = ...
AssignRanking(env, asc) ==
    [env EXCEPT !.view_sorted = WithRanking(@, asc)]

\* lines 152-465: the frames a run may end with (df is the script's `df`,
\* view its `view` after line 386)
Script(table, kec, kel, text, kat, asc) ==
    LET region == RegionView(table, kec, kel)
        detail == DetailView(table, kec, kel, text, kat)
    IN  {AssignRanking([df |-> table, view |-> detail,
                        kel_summary |-> ks, view_sorted |-> vs], asc) :
            ks \in KelSummaries(region, asc), vs \in SortValues(detail, asc)}

(***************************************************************************)
(* Inputs of the model.                                                    *)
(***************************************************************************)
AllKategori == {Hijau, Kuning, Merah}

SearchTexts == {<<>>, <<" ","F","O">>}

GoodHeaders ==
    << <<"I","D"," ","S","L","S">>,
       <<" ","N","a","m","a"," ","S","L","S">>,
       <<"P","L","K","U","M","K","M"," ">>,
       <<"J","u","m","l","a","h"," ","K","D","M">>,
       <<"S","e","l","i","s","i","h">>,
       <<"C","a","t","a","t","a","n">> >>

HeaderPool ==
    << <<"I","D"," ","S","L","S">>,
       <<"i","d">>,
       <<" ","N","a","m","a"," ","S","L","S">>,
       <<"n","a","m","a">>,
       <<"P","L","K","U","M","K","M"," ">>,
       <<"J","u","m","l","a","h"," ","K","D","M">>,
       <<"k","d","m">>,
       <<"S","e","l","i","s","i","h">>,
       <<"C","a","t","a","t","a","n">> >>

\* every header row made of distinct headers of the pool
Layouts ==
    {SelectSeq(HeaderPool, LAMBDA h : h \in S) : S \in SUBSET Range(HeaderPool)}

RowPool ==
    << [id_sls |-> <<"3","5","7","6","0","1","0","0","0","1","0","7">>,
        nama_sls |-> <<"[","1","2","]"," ","F","o","o">>,
        plkumkm |-> Number(100), kdm |-> Number(80), selisih |-> Number(-20)],
       [id_sls |-> <<"3","5","7","6","0","1","0","0","0","1","0","9">>,
        nama_sls |-> <<"F","O","O"," ","1","2">>,
        plkumkm |-> Number(40), kdm |-> Text(<<"9">>), selisih |-> Number(50)],
       [id_sls |-> <<"3","5","7","6","0","2","0","0","0","3","0","1">>,
        nama_sls |-> <<"[","7","]"," ","f","o","o">>,
        plkumkm |-> Number(30), kdm |-> Number(80), selisih |-> Text(<<"5">>)],
       [id_sls |-> <<"9","9","0","0","0","0","0","0","0","0">>,
        nama_sls |-> <<"B","a","z">>,
        plkumkm |-> Blank, kdm |-> Text(<<"n","/","a">>), selisih |-> Number(20)] >>

InfRow ==
    [id_sls |-> <<"3","5","7","6","0","1","0","0","0","4","0","1">>,
     nama_sls |-> <<"B","a","z">>,
     plkumkm |-> Number(10), kdm |-> Number(10), selisih |-> Text(<<"i","n","f">>)]

\* the tables of at most n rows of the pool (a row may occur several times),
\* their rows in the order of the pool
Tables(n) ==
    UNION {{[i \in 1..k |-> RowPool[p[i]]] :
                p \in {p \in [1..k -> DOMAIN RowPool] :
                          \A i \in 1..k : i < k => p[i] <= p[i + 1]}} :
            k \in 0..n}

IdPool ==
    {<<"3","5","7","6","0","1","0","0","0","1">>,
     <<"3","5","7","6","0","1","0","0","0","2","0","1">>,
     <<"3","5","7","6","0","2","1","0","0","4","0","3">>,
     <<"3","5","7","6","0","2","0">>,
     <<"3","5","7","6","0">>,
     <<"0","3","5","7","6","0","1","0","0","0","1">>}

NamaPool ==
    {<<"[","1","2","]"," ","F","o","o">>, <<" ","4","5"," ","q","u","x">>,
     <<"[","x","]"," ","9">>}

SelisihCells ==
    {Number(-20), Number(0), Number(50), Number(25), Number(-5), Blank,
     Text(<<"-","3">>), Text(<<"2",".","5">>), Text(<<"n","/","a">>), Text(<<>>),
     Text(<<"i","n","f">>), Text(<<"-","I","n","f">>)}

PlkumkmCells == {Number(100), Blank, Text(<<"7">>), Text(<<"i","n","f">>)}

KdmCells == {Number(80), Text(<<"n","/","a">>)}

\* every row over the cell pools
RowProduct ==
    [id_sls : IdPool, nama_sls : NamaPool, plkumkm : PlkumkmCells,
     kdm : KdmCells, selisih : SelisihCells]

\* the files of a session: well-formed tables of the row pool, and three
\* files that do not load
SessionSources ==
    {[headers |-> GoodHeaders, rows |-> t] : t \in Tables(MaxRows)}
    \cup {[headers |-> SubSeq(GoodHeaders, 1, 4), rows |-> <<RowPool[1]>>],
          [headers |-> <<HeaderPool[2]>> \o GoodHeaders, rows |-> <<RowPool[1]>>],
          [headers |-> GoodHeaders, rows |-> <<RowPool[1], InfRow>>]}

\* the files a loaded session's upload is replaced by
ReplacementSources ==
    {[headers |-> GoodHeaders, rows |-> <<>>],
     [headers |-> GoodHeaders, rows |-> <<RowPool[1]>>],
     [headers |-> GoodHeaders, rows |-> <<RowPool[1], RowPool[3]>>],
     [headers |-> SubSeq(GoodHeaders, 1, 4), rows |-> <<RowPool[1]>>]}

\* the files of the load check: every header row over the pool, every row over
\* the cell pools
LoadSources ==
    SessionSources
    \cup {[headers |-> h, rows |-> t] :
            h \in Layouts, t \in {<<>>, <<RowPool[2]>>, <<RowPool[3], InfRow>>}}
    \cup {[headers |-> GoodHeaders, rows |-> <<r>>] : r \in RowProduct}

(***************************************************************************)
(* The state machine.  Every interaction makes Streamlit run the script    *)
(* from the top with the widget values of the moment; load_data is         *)
(* memoised on the source (line 73), so a run reads the table of its       *)
(* source.                                                                 *)
(***************************************************************************)
\* lines 140-143 and 148-150: the run stops before any widget is drawn, and
\* Streamlit forgets the values of the widgets a run does not draw
Stopped ==
    /\ df' = <<>>
    /\ kecamatan_pilihan' = Semua
    /\ kelurahan_pilihan' = {}
    /\ q' = <<>>
    /\ kategori_pilihan' = AllKategori
    /\ ascending' = FALSE
    /\ view' = <<>>
    /\ kel_summary' = <<>>
    /\ view_sorted' = <<>>
    /\ xlsx' = NoWorkbook

\* lines 152-465: the run of the script body on the table load_data returned
Render(table, kec, kel, text, kat, asc) ==
    /\ pc' = "loaded"
    /\ error' = NoError
    /\ kecamatan_pilihan' = kec
    /\ kelurahan_pilihan' = kel
    /\ q' = text
    /\ kategori_pilihan' = kat
    /\ ascending' = asc
    /\ \E env \in Script(table, kec, kel, text, kat, asc) :
          /\ df' = env.df
          /\ view' = env.view
          /\ kel_summary' = env.kel_summary
          /\ view_sorted' = env.view_sorted
          /\ xlsx' = to_excel_bytes(env.view_sorted)

\* lines 145-150 and on: a run of the script on a source load_data has not
\* seen yet
Run(src, r, kec, kel, text, kat, asc) ==
    /\ source' = src
    /\ IF r.ok
       THEN Render(r.df, kec, kel, text, kat, asc)
       ELSE /\ pc' = "failed"
            /\ error' = r.error
            /\ Stopped

\* a run on the source of the run before: load_data is memoised on the source
\* (line 73) and returns the table it returned then
Rerun(kec, kel, text, kat, asc) ==
    /\ pc = "loaded"
    /\ UNCHANGED source
    /\ Render(df, kec, kel, text, kat, asc)

Init ==
    /\ source = NoSource
    /\ pc = "nosource"
    /\ error = NoError
    /\ df = <<>>
    /\ kecamatan_pilihan = Semua
    /\ kelurahan_pilihan = {}
    /\ q = <<>>
    /\ kategori_pilihan = AllKategori
    /\ ascending = FALSE
    /\ view = <<>>
    /\ kel_summary = <<>>
    /\ view_sorted = <<>>
    /\ xlsx = NoWorkbook

\* line 139: a file is given where none was loaded; the widgets are drawn
\* for the first time, with their defaults
Upload(src) ==
    /\ pc \in {"nosource", "failed"}
    /\ Run(src, load_data(src), Semua, {}, <<>>, AllKategori, FALSE)

\* line 139: the file of a loaded session is replaced; a widget keeps its
\* value unless its options changed
Replace(src) ==
    /\ pc = "loaded"
    /\ src # source
    /\ LET r == load_data(src)
           kec == IF r.ok /\ KecamatanOptions(r.df) = KecamatanOptions(df)
                  THEN kecamatan_pilihan ELSE Semua
           kel == IF r.ok /\ KelurahanOptions(r.df, kec)
                             = KelurahanOptions(df, kecamatan_pilihan)
                  THEN kelurahan_pilihan ELSE {}
       IN  Run(src, r, kec, kel, q, kategori_pilihan, ascending)

\* line 139: the file is removed
Clear ==
    /\ pc \in {"loaded", "failed"}
    /\ source' = NoSource
    /\ pc' = "nosource"
    /\ error' = NoError
    /\ Stopped

\* lines 156-159
SelectKecamatan(kec) ==
    /\ pc = "loaded"
    /\ kec # kecamatan_pilihan
    /\ LET kel == IF KelurahanOptions(df, kec)
                      = KelurahanOptions(df, kecamatan_pilihan)
                  THEN kelurahan_pilihan ELSE {}
       IN  Rerun(kec, kel, q, kategori_pilihan, ascending)

\* line 183: one subdistrict is added to or removed from the selection
ToggleKelurahan(k) ==
    /\ pc = "loaded"
    /\ LET kel == IF k \in kelurahan_pilihan
                  THEN kelurahan_pilihan \ {k} ELSE kelurahan_pilihan \cup {k}
       IN  Rerun(kecamatan_pilihan, kel, q, kategori_pilihan, ascending)

\* line 364
SetSearch(text) ==
    /\ pc = "loaded"
    /\ text # q
    /\ Rerun(kecamatan_pilihan, kelurahan_pilihan, text, kategori_pilihan,
             ascending)

\* lines 366-370: one category is added to or removed from the selection
ToggleKategori(k) ==
    /\ pc = "loaded"
    /\ LET kat == IF k \in kategori_pilihan
                  THEN kategori_pilihan \ {k} ELSE kategori_pilihan \cup {k}
       IN  Rerun(kecamatan_pilihan, kelurahan_pilihan, q, kat, ascending)

\* lines 246-251
ToggleSortDir ==
    /\ pc = "loaded"
    /\ Rerun(kecamatan_pilihan, kelurahan_pilihan, q, kategori_pilihan,
             ~ascending)

\* lines 451-454: the browser saves the bytes the last run handed to the
\* button, and the click makes the script run again
Download ==
    /\ pc = "loaded"
    /\ Rerun(kecamatan_pilihan, kelurahan_pilihan, q, kategori_pilihan,
             ascending)

Next ==
    \/ \E src \in SessionSources : Upload(src)
    \/ \E src \in ReplacementSources : Replace(src)
    \/ Clear
    \/ pc = "loaded" /\ \E kec \in {Semua} \cup KecamatanOptions(df) :
            SelectKecamatan(kec)
    \/ pc = "loaded" /\ \E k \in Range(KelurahanOptions(df, kecamatan_pilihan)) :
            ToggleKelurahan(k)
    \/ \E text \in SearchTexts : SetSearch(text)
    \/ \E k \in AllKategori : ToggleKategori(k)
    \/ ToggleSortDir
    \/ Download

Spec == Init /\ [][Next]_vars

\* the load alone, over every file of LoadSources
NextLoad ==
    \/ \E src \in LoadSources : pc = "nosource" /\ Upload(src)
    \/ Clear

SpecLoad == Init /\ [][NextLoad]_vars

(***************************************************************************)
(* Properties of the load (checked under SpecLoad).                        *)
(***************************************************************************)
Loaded == pc = "loaded"

\* C1: every row of the enriched table has the category its coerced selisih's
\* sign gives (negative Hijau, zero Kuning, positive Merah), no other
\* category, and np.select's default is never the branch that decides.
C1_CategoryBySign ==
    Loaded =>
        \A i \in DOMAIN df :
            /\ df[i].selisih = Coerce(source.rows[i].selisih)
            /\ SelectBranch(df[i].selisih) # 0
            /\ df[i].kategori \in AllKategori
            /\ df[i].selisih < 0 <=> df[i].kategori = Hijau
            /\ df[i].selisih = 0 <=> df[i].kategori = Kuning
            /\ df[i].selisih > 0 <=> df[i].kategori = Merah

\* a garbage selisih cell was zeroed and its row is Kuning, beside a loaded
\* negative fraction that truncated to zero
C1_Witness ==
    /\ Loaded
    /\ \E i \in DOMAIN df :
          /\ source.rows[i].selisih \in {Text(<<"n","/","a">>), Number(-5)}
          /\ df[i].selisih = 0
          /\ df[i].kategori = Kuning

\* C6: kecamatan is present iff the first 7 characters of id_sls are a key of
\* KECAMATAN_MAP and is then the mapped name; kelurahan likewise with the
\* first 10 characters and KELURAHAN_MAP; an id starting 3576010001 gives
\* Prajurit Kulon and Surodinawan.
C6_RegionLookup ==
    Loaded =>
        \A i \in DOMAIN df :
            LET id == source.rows[i].id_sls
                p7 == SubSeq(id, 1, IF Len(id) < 7 THEN Len(id) ELSE 7)
                p10 == SubSeq(id, 1, IF Len(id) < 10 THEN Len(id) ELSE 10)
            IN  /\ df[i].id_sls = id
                /\ df[i].kecamatan # NaN <=> p7 \in DOMAIN KECAMATAN_MAP
                /\ p7 \in DOMAIN KECAMATAN_MAP => df[i].kecamatan = KECAMATAN_MAP[p7]
                /\ df[i].kelurahan # NaN <=> p10 \in DOMAIN KELURAHAN_MAP
                /\ p10 \in DOMAIN KELURAHAN_MAP => df[i].kelurahan = KELURAHAN_MAP[p10]
                /\ p10 = <<"3","5","7","6","0","1","0","0","0","1">> =>
                      /\ df[i].kecamatan = "Prajurit Kulon"
                      /\ df[i].kelurahan = "Surodinawan"

\* a table loaded with a row whose district is found and whose subdistrict is
\* not
C6_Witness ==
    /\ Loaded
    /\ \E i \in DOMAIN df :
          /\ df[i].kecamatan = "Prajurit Kulon"
          /\ df[i].kelurahan = NaN

\* C8: load_data fails iff a required canonical field is missing after the
\* headers are normalised and mapped; the error names the missing fields and
\* the required set, and nothing is produced from the table.  (Stated for the
\* sources whose numeric cells are all finite, which C9 is about.)
C8_FailsIffMissing ==
    (pc \in {"loaded", "failed"} /\ ~NonFinite(source)) =>
        /\ pc = "failed" <=> Missing(source) # <<>>
        /\ pc = "failed" =>
              /\ error.missing = Missing(source)
              /\ error.required = REQUIRED
              /\ df = <<>> /\ view = <<>> /\ view_sorted = <<>>
              /\ kel_summary = <<>> /\ xlsx = NoWorkbook

\* C9: with every required field present once, load_data never fails on a
\* cell: an integer cell keeps its value, a blank or unparsable cell becomes
\* 0, and every row is kept.
C9_CellsNeverFail ==
    (pc \in {"loaded", "failed"} /\ Missing(source) = <<>> /\ Duplicated(source) = {}) =>
        /\ Loaded
        /\ Len(df) = Len(source.rows)
        /\ \A i \in DOMAIN df : \A c \in Range(NumericColumns) :
              LET cell == source.rows[i][c]
              IN  /\ (cell.kind = "number" /\ cell.tenths % 10 = 0) =>
                        df[i][c] = cell.tenths \div 10
                  /\ (cell.kind = "blank" \/ to_numeric(cell).kind = "nan") =>
                        df[i][c] = 0

(***************************************************************************)
(* Properties of the session (checked under Spec).                         *)
(***************************************************************************)
Differences(rows) == [i \in DOMAIN rows |-> rows[i].selisih]

Ranks(rows) == [i \in DOMAIN rows |-> rows[i].ranking_selisih]

\* the position of the first row of the frame with the selisih of row i
FirstPosition(rows, i) ==
    CHOOSE p \in DOMAIN rows :
        /\ rows[p].selisih = rows[i].selisih
        /\ \A o \in DOMAIN rows : rows[o].selisih = rows[i].selisih => p <= o

SortsBefore(a, b) ==
    IF ascending THEN a.selisih < b.selisih ELSE a.selisih > b.selisih

PositionRanked(rows) ==
    /\ \A i \in DOMAIN rows :
          /\ rows[i].ranking_selisih = FirstPosition(rows, i)
          /\ rows[i].ranking_selisih
                = 1 + Cardinality({j \in DOMAIN rows : SortsBefore(rows[j], rows[i])})
          /\ rows[i].ranking_selisih \in 1..Len(rows)
    /\ \A i, j \in DOMAIN rows :
          rows[i].ranking_selisih = rows[j].ranking_selisih
              <=> rows[i].selisih = rows[j].selisih
    /\ rows # <<>> => \E i \in DOMAIN rows : rows[i].ranking_selisih = 1

\* C2: in the sorted detail view and in the rollup, a row's rank is the
\* position of the first row with its selisih, i.e. 1 + the number of rows
\* that sort strictly before it; equal ranks iff equal selisih; ranks lie in
\* 1..N and rank 1 occurs; [5,5,2] descending is ranked [1,1,3].
C2_MinRank ==
    Loaded =>
        /\ PositionRanked(view_sorted)
        /\ PositionRanked(kel_summary)
        /\ (~ascending /\ Differences(view_sorted) = <<5, 5, 2>>) =>
              Ranks(view_sorted) = <<1, 1, 3>>

\* the view [5,5,2], descending, of two distinct records and a third
C2_Witness ==
    /\ Loaded
    /\ ~ascending
    /\ Differences(view_sorted) = <<5, 5, 2>>
    /\ Ranks(view_sorted) = <<1, 1, 3>>
    /\ view_sorted[1].id_sls # view_sorted[2].id_sls

\* the four predicates of a FilterSpec on one record; a predicate whose
\* widget is empty (or "(Semua)") is not active
DistrictAccepts(r) ==
    kecamatan_pilihan = Semua \/ r.kecamatan = kecamatan_pilihan

SubdistrictAccepts(r) ==
    kelurahan_pilihan = {} \/ r.kelurahan \in kelurahan_pilihan

SearchAccepts(r) ==
    \/ q = <<>>
    \/ Contains(Lower(r.nama_sls), Lower(Strip(q)))
    \/ Contains(r.id_sls, Lower(Strip(q)))
    \/ r.parsed_id # NaNText /\ Contains(r.parsed_id, Lower(Strip(q)))

CategoryAccepts(r) ==
    kategori_pilihan = {} \/ r.kategori \in kategori_pilihan

FilterStep(step, v) ==
    CASE step = "search" -> FilterSearch(v, q)
      [] step = "kategori" -> FilterKategori(v, kategori_pilihan)
      [] step = "kecamatan" -> FilterKecamatan(v, kecamatan_pilihan)
      [] step = "kelurahan" -> FilterKelurahan(v, kelurahan_pilihan)

FilterSteps == {"search", "kategori", "kecamatan", "kelurahan"}

FilterOrders ==
    {o \in [1..4 -> FilterSteps] : \A i, j \in 1..4 : o[i] = o[j] => i = j}

InOrder(o, v) ==
    FilterStep(o[4], FilterStep(o[3], FilterStep(o[2], FilterStep(o[1], v))))

C4_EmptyCategoryShowsNone ==
    (Loaded /\ kategori_pilihan = {}) => view = <<>>

\* C4 as amended: with no category selected the category filter is skipped,
\* and the detail view is the records the other three predicates accept.
C4_EmptyCategorySkipsFilter ==
    (Loaded /\ kategori_pilihan = {}) =>
        view = SelectSeq(df, LAMBDA r :
                   DistrictAccepts(r) /\ SubdistrictAccepts(r) /\ SearchAccepts(r))

\* no category is selected and records of every loaded category are shown
C4_Witness ==
    /\ Loaded
    /\ kategori_pilihan = {}
    /\ view # <<>>
    /\ {r.kategori : r \in Range(view)} = {Hijau, Merah}

\* the rollup of a view: one row per subdistrict of the view's records, with
\* the group's sums and its record count
RollupOf(rollup, v) ==
    LET names == {r.kelurahan : r \in Range(v)} \ {NaN}
        Members(k) == SelectSeq(v, LAMBDA r : r.kelurahan = k)
    IN  /\ {row.kelurahan : row \in Range(rollup)} = names
        /\ Len(rollup) = Cardinality(names)
        /\ \A i \in DOMAIN rollup :
              LET g == Members(rollup[i].kelurahan)
              IN  /\ rollup[i].plkumkm = SumOver(g, "plkumkm")
                  /\ rollup[i].kdm = SumOver(g, "kdm")
                  /\ rollup[i].selisih = SumOver(g, "selisih")
                  /\ rollup[i].jumlah_sls = Len(g)
        /\ v = <<>> => rollup = <<>>

\* C5 as claimed: the rollup is the rollup of the view the whole FilterSpec
\* (district, subdistricts, search text, categories) selects.
C5_RollupOfFilterSpecView ==
    Loaded => RollupOf(kel_summary, view)

\* C5 as amended: the rollup is the rollup of the view the district and the
\* subdistrict set select; the search text and the category set do not
\* affect it.
C5_RollupOfRegionView ==
    Loaded =>
        RollupOf(kel_summary,
                 SelectSeq(df, LAMBDA r : DistrictAccepts(r) /\ SubdistrictAccepts(r)))

\* a rollup row sums two records, beside a record without subdistrict, while
\* the search or the category filter hides records from the detail view
C5_Witness ==
    /\ Loaded
    /\ \E i \in DOMAIN kel_summary :
          /\ kel_summary[i].jumlah_sls = 2
          /\ kel_summary[i].selisih = 3
    /\ \E r \in Range(df) : r.kelurahan = NaN /\ DistrictAccepts(r)
    /\ Len(view) < Len(df)
    /\ kelurahan_pilihan = {}

Unmapped(r) ==
    /\ Take(r.id_sls, 7) \notin DOMAIN KECAMATAN_MAP
    /\ Take(r.id_sls, 10) \notin DOMAIN KELURAHAN_MAP

\* C7: a record whose id prefixes are in neither table has no district and no
\* subdistrict; it is in the detail view when no district and no subdistrict
\* is selected and the search and category predicates accept it, and in no
\* view with a district or a subdistrict selected.
C7_UnmappedRecords ==
    Loaded =>
        \A r \in Range(df) :
            Unmapped(r) =>
                /\ r.kecamatan = NaN
                /\ r.kelurahan = NaN
                /\ (kecamatan_pilihan = Semua /\ kelurahan_pilihan = {}
                    /\ SearchAccepts(r) /\ CategoryAccepts(r))
                        => r \in Range(view)
                /\ (kecamatan_pilihan # Semua \/ kelurahan_pilihan # {})
                        => r \notin Range(view)

\* a district is selected, the table has an unmapped record, and the view
\* shows other records
C7_Witness ==
    /\ Loaded
    /\ kecamatan_pilihan # Semua
    /\ \E r \in Range(df) : Unmapped(r) /\ SearchAccepts(r) /\ CategoryAccepts(r)
    /\ view # <<>>

\* C10: a run on the same source leaves the enriched table as it was: no
\* interaction adds a column to it, reorders it or removes rows from it.
C10_TableUnchanged ==
    [][(pc = "loaded" /\ pc' = "loaded" /\ source' = source) => df' = df]_vars

\* filters, the ascending sort, the ranking and the export have all run on a
\* table that is still what load_data returned
C10_Witness ==
    /\ Loaded
    /\ ascending
    /\ q # <<>>
    /\ kecamatan_pilihan # Semua
    /\ kategori_pilihan # AllKategori
    /\ Len(df) = MaxRows
    /\ view_sorted # <<>>
    /\ Len(view_sorted) < Len(df)
    /\ xlsx.body # <<>>
    /\ df = load_data(source).df
    /\ \E i, j \in DOMAIN df : i < j /\ df[i].selisih > df[j].selisih

====
